---- MODULE Spec2Model ----
(***************************************************************************)
(* Model of lesson-13/infrastructure/secret_rotation_lambda.py: the        *)
(* Secrets Manager rotation function for an RDS PostgreSQL password.       *)
(*                                                                         *)
(* State: the secret store (per secret, a map version id -> SecretString   *)
(* and staging labels), the consumer database (live master password, up or *)
(* down), and one record per concurrently running function instance (its   *)
(* position in the code and its local variables).  Every boto3 / psycopg2  *)
(* call of the source is one atomic step, so that the calls of two         *)
(* instances interleave.                                                   *)
(*                                                                         *)
(* The store and client calls behave as boto3 and Secrets Manager do:      *)
(*  - botocore validates keyword arguments against the operation's input   *)
(*    shape before sending anything: an unknown keyword, or None for a     *)
(*    string member, raises ParamValidationError;                          *)
(*  - a staging label is attached to at most one version of a secret: a    *)
(*    call that attaches it to a version detaches it from the other;       *)
(*  - a version's content is immutable: PutSecretValue with the id of an   *)
(*    existing version is ignored when the content is the same and fails   *)
(*    with ResourceExistsException when it differs;                        *)
(*  - GetSecretValue with both VersionId and VersionStage fails with       *)
(*    ResourceNotFoundException when the version does not exist and with   *)
(*    InvalidRequestException when it exists without that label.           *)
(* Deletion of deprecated (unlabelled) versions by the store is not        *)
(* modelled: it happens long after a rotation.                             *)
(***************************************************************************)
EXTENDS Integers, Sequences, FiniteSets, TLC

\* Number of distinct passwords generate_password can return.
NumPasswords == 2

\* generate_password(length=32).
DefaultLength == 32
\* Largest of the short lengths generate_password is called with.
MaxLength == 5
\* Frames of generate_password the interpreter allows below the first
\* before it raises RecursionError.
MaxDepth == 2

Tok(i) == <<"tok", i>>
Pw(i) == <<"pw", i>>

\* Version ids: Tok(0) is the version the secret starts with; the caller
\* may pass any of them as ClientRequestToken.
VersionIds == {Tok(0), Tok(1), Tok(2)}
Tokens == VersionIds
GeneratedPasswords == {Pw(i) : i \in 1..NumPasswords}
OldPassword == Pw(0)

\* "S1": the secret under rotation.  "S0": a secret that exists and has no
\* version (created without a value).  "SX": no such secret.
Arns == {"S1", "S0", "SX"}

\* Concurrent instances of the function (separate Lambda containers).
Workers == {"w1", "w2"}
SeqWorkers == {"w1"}

Steps == {"createSecret", "setSecret", "testSecret", "finishSecret"}
\* A step value outside the four the handler knows.
InvalidStep == "deleteSecret"

\* Python's None where a version id, a SecretString or a dict is expected.
None == <<"None">>
\* No exception.
NoError == "none"
NoPrev == [step |-> "none", arn |-> "none", token |-> None, result |-> "none"]
NoSnapshot == <<>>

VARIABLES
    store,       \* arn -> (version id -> [SecretString, stages])
    dbPassword,  \* the consumer's live master password
    dbUp,        \* whether the consumer (RDS API and database) is reachable
    proc,        \* worker -> invocation record
    prev,        \* observer: the invocation that returned last (sequential runs)
    pre,         \* observer: the store when the running invocation started
    table,       \* users handler: the DynamoDB table, id -> item
    request      \* users handler: worker -> the request it is serving

vars == <<store, dbPassword, dbUp, proc, prev, pre, table, request>>

----------------------------------------------------------------------------
\* JSON and dicts.  A JSON object text is the sequence of its members
\* <<key, value>>; a Python dict is a sequence of members with unique keys
\* in insertion order.

HasKey(d, k) == \E i \in DOMAIN d : d[i][1] = k

DictGet(d, k) == d[CHOOSE i \in DOMAIN d : d[i][1] = k][2]

DictSet(d, k, v) ==
    IF HasKey(d, k)
    THEN [i \in DOMAIN d |-> IF d[i][1] = k THEN <<k, v>> ELSE d[i]]
    ELSE Append(d, <<k, v>>)

RECURSIVE json_loads_from(_, _, _)
json_loads_from(s, i, d) ==
    IF i > Len(s) THEN d
    ELSE json_loads_from(s, i + 1, DictSet(d, s[i][1], s[i][2]))

\* json.loads: members in order, a repeated key keeps its place and takes
\* the last value.
json_loads(s) == json_loads_from(s, 1, <<>>)

\* json.dumps: the members in the dict's order.
json_dumps(d) == [i \in DOMAIN d |-> <<d[i][1], d[i][2]>>]

InitialSecretString ==
    << <<"host", "db.internal">>, <<"port", "5432">>, <<"dbname", "appdb">>,
       <<"username", "app">>, <<"password", OldPassword>> >>

----------------------------------------------------------------------------
\* The secret store as seen through the boto3 client.

Ok(v) == [err |-> NoError, value |-> v]
Err(e) == [err |-> e, value |-> None]

Labelled(versions, stage) == {v \in DOMAIN versions : stage \in versions[v].stages}

ValidUpdateStageParams ==
    {"SecretId", "VersionStage", "RemoveFromVersionId", "MoveToVersionId"}

\* A Python string used where a version id is expected (a dict key test).
StrKey(s) == <<"str", s>>

\* service.get_secret_value(SecretId, [VersionId], VersionStage).
get_secret_value(st, arn, versionId, stage) ==
    IF arn \notin DOMAIN st THEN Err("ResourceNotFoundException")
    ELSE LET versions == st[arn] IN
         IF versionId # None
         THEN IF versionId \notin DOMAIN versions
              THEN Err("ResourceNotFoundException")
              ELSE IF stage \notin versions[versionId].stages
                   THEN Err("InvalidRequestException")
                   ELSE Ok(versions[versionId].SecretString)
         ELSE IF Labelled(versions, stage) = {}
              THEN Err("ResourceNotFoundException")
              ELSE Ok(versions[CHOOSE v \in Labelled(versions, stage) : TRUE].SecretString)

\* get_secret_dict(service, arn, stage, token=None): `if token:` adds the
\* VersionId only for a non-empty token; json.loads of the SecretString.
get_secret_dict(st, arn, stage, token) ==
    LET r == get_secret_value(st, arn, token, stage)
    IN  IF r.err # NoError THEN r ELSE Ok(json_loads(r.value))

\* The versions map with `stages` detached from every version but `keep`.
Detach(versions, stages, keep) ==
    [v \in DOMAIN versions |->
        IF v = keep THEN versions[v]
        ELSE [versions[v] EXCEPT !.stages = @ \ stages]]

\* put_secret_value with a store that leaves the label on its old holder.
put_secret_value_KeepsLabels(st, arn, token, secretString, stages) ==
    IF arn \notin DOMAIN st
    THEN [err |-> "ResourceNotFoundException", store |-> st]
    ELSE LET versions == st[arn] IN
         IF token \in DOMAIN versions
         THEN IF versions[token].SecretString = secretString
              THEN [err |-> NoError, store |-> st]
              ELSE [err |-> "ResourceExistsException", store |-> st]
         ELSE [err |-> NoError,
               store |-> [st EXCEPT ![arn] =
                   (token :> [SecretString |-> secretString, stages |-> stages])
                   @@ versions]]

\* put_secret_value that stores the version first and labels it in a second
\* request that is never made.
put_secret_value_Unlabelled(st, arn, token, secretString, stages) ==
    IF arn \notin DOMAIN st
    THEN [err |-> "ResourceNotFoundException", store |-> st]
    ELSE LET versions == st[arn] IN
         IF token \in DOMAIN versions
         THEN IF versions[token].SecretString = secretString
              THEN [err |-> NoError, store |-> st]
              ELSE [err |-> "ResourceExistsException", store |-> st]
         ELSE [err |-> "InternalServiceError",
               store |-> [st EXCEPT ![arn] =
                   (token :> [SecretString |-> secretString, stages |-> {}])
                   @@ versions]]

\* service.put_secret_value(SecretId, ClientRequestToken, SecretString,
\* VersionStages): result [err, store].
put_secret_value(st, arn, token, secretString, stages) ==
    IF arn \notin DOMAIN st
    THEN [err |-> "ResourceNotFoundException", store |-> st]
    ELSE LET versions == st[arn] IN
         IF token \in DOMAIN versions
         THEN IF versions[token].SecretString = secretString
              THEN [err |-> NoError, store |-> st]
              ELSE [err |-> "ResourceExistsException", store |-> st]
         ELSE [err |-> NoError,
               store |-> [st EXCEPT ![arn] =
                   (token :> [SecretString |-> secretString, stages |-> stages])
                   @@ Detach(versions, stages, token)]]

\* service.describe_secret(SecretId)["VersionIdsToStages"]: the versions
\* that carry a staging label, each with its labels.
describe_secret(st, arn) ==
    IF arn \notin DOMAIN st THEN Err("ResourceNotFoundException")
    ELSE Ok([v \in {x \in DOMAIN st[arn] : st[arn][x].stages # {}} |->
                st[arn][v].stages])

\* The UpdateSecretVersionStage operation of the service, for a request that
\* passed the client's validation (None: the member is absent).  A label
\* attached elsewhere moves only when RemoveFromVersionId names its holder;
\* AWSCURRENT cannot be removed without being moved; the version AWSCURRENT
\* leaves gets AWSPREVIOUS.
UpdateSecretVersionStage(st, arn, stage, removeFrom, moveTo) ==
    IF arn \notin DOMAIN st
    THEN [err |-> "ResourceNotFoundException", store |-> st]
    ELSE LET versions == st[arn]
             holders == Labelled(versions, stage)
         IN
         IF moveTo # None
         THEN IF moveTo \notin DOMAIN versions
              THEN [err |-> "ResourceNotFoundException", store |-> st]
              ELSE IF holders \ {moveTo} # {} /\ removeFrom \notin holders
                   THEN [err |-> "InvalidParameterException", store |-> st]
                   ELSE IF holders = {} /\ removeFrom # None
                        THEN [err |-> "InvalidParameterException", store |-> st]
                        ELSE [err |-> NoError,
                              store |-> [st EXCEPT ![arn] =
                                  [v \in DOMAIN versions |->
                                      IF v = moveTo
                                      THEN [versions[v] EXCEPT !.stages = @ \cup {stage}]
                                      ELSE IF stage = "AWSCURRENT" /\ v \in holders
                                      THEN [versions[v] EXCEPT !.stages =
                                               (@ \ {stage}) \cup {"AWSPREVIOUS"}]
                                      ELSE IF stage = "AWSCURRENT" /\ holders \ {moveTo} # {}
                                      THEN [versions[v] EXCEPT !.stages = @ \ {"AWSPREVIOUS"}]
                                      ELSE versions[v]]]]
         ELSE IF removeFrom = None \/ removeFrom \notin holders
                 \/ stage = "AWSCURRENT"
              THEN [err |-> "InvalidParameterException", store |-> st]
              ELSE [err |-> NoError,
                    store |-> [st EXCEPT ![arn][removeFrom].stages = @ \ {stage}]]

\* Optional member `k` of the keyword arguments, None when absent.
Kw(kwargs, k) == IF k \in DOMAIN kwargs THEN kwargs[k] ELSE None

\* update_secret_version_stage with the unknown keyword dropped and the
\* request carried out as sent: the label leaves RemoveFromVersionId and,
\* with no MoveToVersionId, goes nowhere.
update_secret_version_stage_Unvalidated(st, kwargs) ==
    LET arn == kwargs["SecretId"]
        stage == kwargs["VersionStage"]
        removeFrom == Kw(kwargs, "RemoveFromVersionId")
    IN  IF arn \notin DOMAIN st
        THEN [err |-> "ResourceNotFoundException", store |-> st]
        ELSE IF removeFrom \notin DOMAIN st[arn]
        THEN [err |-> NoError, store |-> st]
        ELSE [err |-> NoError,
              store |-> [st EXCEPT ![arn][removeFrom].stages = @ \ {stage}]]

\* update_secret_version_stage that takes ClientRequestToken for the version
\* to label and carries the request out without comparing
\* RemoveFromVersionId with the version that holds the label.
update_secret_version_stage_MovesUnchecked(st, kwargs) ==
    LET arn == kwargs["SecretId"]
        stage == kwargs["VersionStage"]
        removeFrom == Kw(kwargs, "RemoveFromVersionId")
        moveTo == Kw(kwargs, "ClientRequestToken")
    IN  IF arn \notin DOMAIN st \/ moveTo \notin DOMAIN st[arn]
        THEN [err |-> "ResourceNotFoundException", store |-> st]
        ELSE [err |-> NoError,
              store |-> [st EXCEPT ![arn] =
                  [v \in DOMAIN st[arn] |->
                      IF v = moveTo
                      THEN [st[arn][v] EXCEPT !.stages = @ \cup {stage}]
                      ELSE IF v = removeFrom
                      THEN [st[arn][v] EXCEPT !.stages = @ \ {stage}]
                      ELSE st[arn][v]]]]

\* update_secret_version_stage that takes ClientRequestToken for
\* MoveToVersionId: the service moves AWSCURRENT to that version and leaves
\* its other labels in place.
update_secret_version_stage_MoveToToken(st, kwargs) ==
    IF kwargs["RemoveFromVersionId"] = None
    THEN [err |-> "ParamValidationError", store |-> st]
    ELSE UpdateSecretVersionStage(st, kwargs["SecretId"], kwargs["VersionStage"],
                                  kwargs["RemoveFromVersionId"],
                                  Kw(kwargs, "ClientRequestToken"))

\* service.update_secret_version_stage(**kwargs): botocore validates the
\* keywords against the operation's input shape, then sends the request.
update_secret_version_stage(st, kwargs) ==
    IF \/ ~(DOMAIN kwargs \subseteq ValidUpdateStageParams)
       \/ \E k \in DOMAIN kwargs \cap {"RemoveFromVersionId", "MoveToVersionId"} :
              kwargs[k] = None
    THEN [err |-> "ParamValidationError", store |-> st]
    ELSE UpdateSecretVersionStage(st, kwargs["SecretId"], kwargs["VersionStage"],
                                  Kw(kwargs, "RemoveFromVersionId"),
                                  Kw(kwargs, "MoveToVersionId"))

----------------------------------------------------------------------------
\* The function instances.

\* pc: the position in the code; entry: the function the caller invoked;
\* local: pending_secret, the serialized new secret or current_version;
\* result: the exception that reached the caller; log: the last message
\* logged; conn: the psycopg2 connection; concurrent: whether another
\* instance was running a step function during this invocation; length and
\* depth: the argument of generate_password and the number of its frames
\* below the first; row: result[0] of the probe, -1 before fetchone; auth:
\* what the invocation's call to the consumer authenticated with.
Idle == [pc |-> "idle", entry |-> "none", step |-> "none", arn |-> "none",
         token |-> None, local |-> None, result |-> "none", log |-> "none",
         conn |-> "none", concurrent |-> FALSE, length |-> 0, depth |-> 0,
         row |-> -1, auth |-> None]

Active(p) == p.pc \notin {"idle", "done"}

Entry(step) ==
    CASE step = "createSecret" -> "create_lookup"
      [] step = "setSecret" -> "set_current"
      [] step = "testSecret" -> "test_pending"
      [] step = "finishSecret" -> "finish_describe"

\* The invocation of worker w ends: an exception `err` propagates to the
\* caller, or (NoError) the function returns.
Done(p, err, log) == [p EXCEPT !.pc = "done", !.result = err, !.log = log]

\* users handler: no request is being served.
NoRequest == [pc |-> "idle", op |-> "none", id |-> "none", email |-> <<>>,
              statusCode |-> 0]

ConsumerUser == "app"

\* rds_client, a boto3 client: its requests are signed with the credentials
\* of the function's execution role.
RdsClientCredential == <<"iam", "execution role">>

\* The keyword arguments of psycopg2.connect built from a secret dict.
ConnectArgs(secret) ==
    << <<"host", DictGet(secret, "host")>>,
       <<"port", DictGet(secret, "port")>>,
       <<"database", DictGet(secret, "dbname")>>,
       <<"user", DictGet(secret, "username")>>,
       <<"password", DictGet(secret, "password")>> >>
ProbeRows == {0, 1}

\* The secret under rotation has one version, labelled AWSCURRENT.
InitialStore ==
    [a \in {"S1", "S0"} |->
        IF a = "S1"
        THEN Tok(0) :> [SecretString |-> InitialSecretString,
                        stages |-> {"AWSCURRENT"}]
        ELSE <<>>]

Init ==
    /\ store = InitialStore
    /\ dbPassword = OldPassword
    /\ dbUp = TRUE
    /\ proc = [w \in Workers |-> Idle]
    /\ prev = NoPrev
    /\ pre = NoSnapshot
    /\ table = <<>>
    /\ request = [w \in Workers |-> NoRequest]

\* A step function is called directly with (arn, token).
Invoke(w, step, arn, token, remember) ==
    /\ proc[w].pc = "idle"
    /\ proc' = [u \in Workers |->
                   IF u = w
                   THEN [Idle EXCEPT !.pc = Entry(step), !.entry = "step function",
                                     !.step = step, !.arn = arn, !.token = token,
                                     !.concurrent = \E x \in Workers : Active(proc[x])]
                   ELSE IF Active(proc[u])
                   THEN [proc[u] EXCEPT !.concurrent = TRUE]
                   ELSE proc[u]]
    /\ pre' = IF remember THEN store ELSE NoSnapshot
    /\ UNCHANGED <<store, dbPassword, dbUp, prev, table, request>>

\* lambda_handler that looks for AWSCURRENT among the stages and has no
\* else branch: a step it does not know is skipped and the handler returns.
lambda_handler_FallsThrough(w, step, arn, token, remember) ==
    /\ proc[w].pc = "idle"
    /\ LET p == [Idle EXCEPT !.entry = "lambda_handler", !.step = step,
                              !.arn = arn, !.token = token]
           metadata == describe_secret(store, arn)
       IN  proc' = [proc EXCEPT ![w] =
              IF metadata.err # NoError
              THEN Done(p, metadata.err, "none")
              ELSE IF \A v \in DOMAIN metadata.value :
                         "AWSCURRENT" \notin metadata.value[v]
              THEN Done(p, "ValueError", "no AWSCURRENT version")
              ELSE IF step \in Steps
              THEN [p EXCEPT !.pc = Entry(step)]
              ELSE Done(p, NoError, "none")]
    /\ pre' = IF remember THEN store ELSE NoSnapshot
    /\ UNCHANGED <<store, dbPassword, dbUp, prev, table, request>>

\* lambda_handler(event, context): describe_secret, the AWSCURRENT check on
\* the keys of VersionIdsToStages, then the dispatch on the step.  The keys
\* are version ids, so the string 'AWSCURRENT' is among them only if a
\* version has that id; the step functions are therefore also modelled as
\* called directly (Invoke).
lambda_handler(w, step, arn, token, remember) ==
    /\ proc[w].pc = "idle"
    /\ LET p == [Idle EXCEPT !.entry = "lambda_handler", !.step = step,
                              !.arn = arn, !.token = token]
           metadata == describe_secret(store, arn)
       IN  proc' = [proc EXCEPT ![w] =
              IF metadata.err # NoError
              THEN Done(p, metadata.err, "none")
              ELSE IF StrKey("AWSCURRENT") \notin DOMAIN metadata.value
              THEN Done(p, "ValueError", "no AWSCURRENT version")
              ELSE IF step \in Steps
              THEN [p EXCEPT !.pc = Entry(step)]
              ELSE Done(p, "ValueError", "Invalid step parameter")]
    /\ pre' = IF remember THEN store ELSE NoSnapshot
    /\ UNCHANGED <<store, dbPassword, dbUp, prev, table, request>>

\* create_secret without the lookup: a new secret is always generated.
create_lookup_Skipped(w) ==
    /\ proc[w].pc = "create_lookup"
    /\ proc' = [proc EXCEPT ![w] = [proc[w] EXCEPT !.pc = "create_read"]]
    /\ UNCHANGED <<store, dbPassword, dbUp, prev, pre, table, request>>

\* create_secret: the lookup of the token's version under AWSPENDING.
create_lookup(w) ==
    /\ proc[w].pc = "create_lookup"
    /\ LET p == proc[w]
           r == get_secret_value(store, p.arn, p.token, "AWSPENDING")
       IN  proc' = [proc EXCEPT ![w] =
              IF r.err = NoError
              THEN Done(p, NoError, "createSecret: Successfully retrieved secret")
              ELSE IF r.err = "ResourceNotFoundException"
              THEN [p EXCEPT !.pc = "create_read"]
              ELSE Done(p, r.err, "none")]
    /\ UNCHANGED <<store, dbPassword, dbUp, prev, pre, table, request>>

\* create_secret that builds the new secret from an empty dict when the
\* AWSCURRENT value cannot be read.
create_read_WithoutCurrent(w) ==
    /\ proc[w].pc = "create_read"
    /\ LET p == proc[w]
           r == get_secret_dict(store, p.arn, "AWSCURRENT", None)
           current_secret == IF r.err # NoError THEN <<>> ELSE r.value
       IN  \E password \in GeneratedPasswords :
              proc' = [proc EXCEPT ![w] =
                 [p EXCEPT !.pc = "create_put",
                           !.local = json_dumps(DictSet(current_secret, "password", password))]]
    /\ UNCHANGED <<store, dbPassword, dbUp, prev, pre, table, request>>

\* create_secret that stores a dict holding the generated password alone.
create_read_PasswordOnly(w) ==
    /\ proc[w].pc = "create_read"
    /\ LET p == proc[w]
           r == get_secret_dict(store, p.arn, "AWSCURRENT", None)
       IN  IF r.err # NoError
           THEN proc' = [proc EXCEPT ![w] = Done(p, r.err, "none")]
           ELSE \E password \in GeneratedPasswords :
                  proc' = [proc EXCEPT ![w] =
                     [p EXCEPT !.pc = "create_put",
                               !.local = json_dumps(DictSet(<<>>, "password", password))]]
    /\ UNCHANGED <<store, dbPassword, dbUp, prev, pre, table, request>>

\* create_secret: the AWSCURRENT dict with a generated password, serialized.
create_read(w) ==
    /\ proc[w].pc = "create_read"
    /\ LET p == proc[w]
           r == get_secret_dict(store, p.arn, "AWSCURRENT", None)
       IN  IF r.err # NoError
           THEN proc' = [proc EXCEPT ![w] = Done(p, r.err, "none")]
           ELSE \E password \in GeneratedPasswords :
                  proc' = [proc EXCEPT ![w] =
                     [p EXCEPT !.pc = "create_put",
                               !.local = json_dumps(DictSet(r.value, "password", password))]]
    /\ UNCHANGED <<store, dbPassword, dbUp, prev, pre, table, request>>

\* create_secret: put_secret_value under the token with stage AWSPENDING.
create_put(w) ==
    /\ proc[w].pc = "create_put"
    /\ LET p == proc[w]
           r == put_secret_value(store, p.arn, p.token, p.local, {"AWSPENDING"})
       IN  /\ store' = r.store
           /\ proc' = [proc EXCEPT ![w] =
                 IF r.err = NoError
                 THEN Done(p, NoError, "createSecret: Successfully put secret")
                 ELSE Done(p, r.err, "none")]
    /\ UNCHANGED <<dbPassword, dbUp, prev, pre, table, request>>

\* set_secret: current_secret = get_secret_dict(AWSCURRENT) (not used later).
set_current(w) ==
    /\ proc[w].pc = "set_current"
    /\ LET p == proc[w]
           r == get_secret_dict(store, p.arn, "AWSCURRENT", None)
       IN  proc' = [proc EXCEPT ![w] =
              IF r.err # NoError THEN Done(p, r.err, "none")
              ELSE [p EXCEPT !.pc = "set_pending"]]
    /\ UNCHANGED <<store, dbPassword, dbUp, prev, pre, table, request>>

\* set_secret that reads the AWSPENDING version without the token.
set_pending_NoToken(w) ==
    /\ proc[w].pc = "set_pending"
    /\ LET p == proc[w]
           r == get_secret_dict(store, p.arn, "AWSPENDING", None)
       IN  proc' = [proc EXCEPT ![w] =
              IF r.err # NoError THEN Done(p, r.err, "none")
              ELSE [p EXCEPT !.pc = "set_apply", !.local = r.value]]
    /\ UNCHANGED <<store, dbPassword, dbUp, prev, pre, table, request>>

\* set_secret: pending_secret = get_secret_dict(AWSPENDING, token).
set_pending(w) ==
    /\ proc[w].pc = "set_pending"
    /\ LET p == proc[w]
           r == get_secret_dict(store, p.arn, "AWSPENDING", p.token)
       IN  proc' = [proc EXCEPT ![w] =
              IF r.err # NoError THEN Done(p, r.err, "none")
              ELSE [p EXCEPT !.pc = "set_apply", !.local = r.value]]
    /\ UNCHANGED <<store, dbPassword, dbUp, prev, pre, table, request>>

\* set_secret that sends the password of current_secret.
set_apply_CurrentPassword(w) ==
    /\ proc[w].pc = "set_apply"
    /\ LET p == proc[w] IN
       IF dbUp
       THEN /\ dbPassword' = DictGet(get_secret_dict(store, p.arn, "AWSCURRENT", None).value,
                                     "password")
            /\ proc' = [proc EXCEPT ![w] =
                  Done(p, NoError, "setSecret: Successfully set password in RDS")]
       ELSE /\ dbPassword' = dbPassword
            /\ proc' = [proc EXCEPT ![w] =
                  Done(p, "ClientError", "setSecret: Failed to set password in RDS")]
    /\ UNCHANGED <<store, dbUp, prev, pre, table, request>>

\* set_secret whose except block logs the failure and does not raise it.
set_apply_Swallows(w) ==
    /\ proc[w].pc = "set_apply"
    /\ LET p == proc[w] IN
       IF dbUp
       THEN /\ dbPassword' = DictGet(p.local, "password")
            /\ proc' = [proc EXCEPT ![w] =
                  Done(p, NoError, "setSecret: Successfully set password in RDS")]
       ELSE /\ dbPassword' = dbPassword
            /\ proc' = [proc EXCEPT ![w] =
                  Done(p, NoError, "setSecret: Failed to set password in RDS")]
    /\ UNCHANGED <<store, dbUp, prev, pre, table, request>>

\* set_secret: rds_client.modify_db_instance(MasterUserPassword=pending
\* password); a failure is logged and raised again.
set_apply(w) ==
    /\ proc[w].pc = "set_apply"
    /\ LET p == [proc[w] EXCEPT !.auth = RdsClientCredential] IN
       IF dbUp
       THEN /\ dbPassword' = DictGet(p.local, "password")
            /\ proc' = [proc EXCEPT ![w] =
                  Done(p, NoError, "setSecret: Successfully set password in RDS")]
       ELSE /\ dbPassword' = dbPassword
            /\ proc' = [proc EXCEPT ![w] =
                  Done(p, "ClientError", "setSecret: Failed to set password in RDS")]
    /\ UNCHANGED <<store, dbUp, prev, pre, table, request>>

\* test_secret: pending_secret = get_secret_dict(AWSPENDING, token).
test_pending(w) ==
    /\ proc[w].pc = "test_pending"
    /\ LET p == proc[w]
           r == get_secret_dict(store, p.arn, "AWSPENDING", p.token)
       IN  proc' = [proc EXCEPT ![w] =
              IF r.err # NoError THEN Done(p, r.err, "none")
              ELSE [p EXCEPT !.pc = "test_connect", !.local = r.value]]
    /\ UNCHANGED <<store, dbPassword, dbUp, prev, pre, table, request>>

\* test_secret whose except block logs a failed connect and returns.
test_connect_Swallows(w) ==
    /\ proc[w].pc = "test_connect"
    /\ LET p == proc[w] IN
       proc' = [proc EXCEPT ![w] =
          IF /\ dbUp
             /\ DictGet(p.local, "username") = ConsumerUser
             /\ DictGet(p.local, "password") = dbPassword
          THEN [p EXCEPT !.pc = "test_query", !.conn = "open"]
          ELSE Done(p, NoError, "testSecret: Failed to connect to database")]
    /\ UNCHANGED <<store, dbPassword, dbUp, prev, pre, table, request>>

\* test_secret that connects with the fields of the AWSCURRENT version.
test_connect_CurrentRecord(w) ==
    /\ proc[w].pc = "test_connect"
    /\ LET kwargs == ConnectArgs(get_secret_dict(store, proc[w].arn, "AWSCURRENT", None).value)
           p == [proc[w] EXCEPT !.auth = kwargs]
       IN  proc' = [proc EXCEPT ![w] =
              IF /\ dbUp
                 /\ DictGet(kwargs, "user") = ConsumerUser
                 /\ DictGet(kwargs, "password") = dbPassword
              THEN [p EXCEPT !.pc = "test_query", !.conn = "open"]
              ELSE Done(p, "OperationalError", "testSecret: Failed to connect to database")]
    /\ UNCHANGED <<store, dbPassword, dbUp, prev, pre, table, request>>

\* test_secret: psycopg2.connect with the pending record's fields.
test_connect(w) ==
    /\ proc[w].pc = "test_connect"
    /\ LET kwargs == ConnectArgs(proc[w].local)
           p == [proc[w] EXCEPT !.auth = kwargs]
       IN  proc' = [proc EXCEPT ![w] =
              IF /\ dbUp
                 /\ DictGet(kwargs, "user") = ConsumerUser
                 /\ DictGet(kwargs, "password") = dbPassword
              THEN [p EXCEPT !.pc = "test_query", !.conn = "open"]
              ELSE Done(p, "OperationalError", "testSecret: Failed to connect to database")]
    /\ UNCHANGED <<store, dbPassword, dbUp, prev, pre, table, request>>

\* test_secret that, once the probe succeeded, drops the AWSPENDING label of
\* the version it tested.
test_query_Unstages(w) ==
    /\ proc[w].pc = "test_query"
    /\ dbUp
    /\ LET p == proc[w] IN
       /\ proc' = [proc EXCEPT ![w] =
             Done([p EXCEPT !.conn = "closed", !.row = 1], NoError,
                  "testSecret: Successfully connected to database")]
       /\ store' = [store EXCEPT ![p.arn][p.token].stages = @ \ {"AWSPENDING"}]
    /\ UNCHANGED <<dbPassword, dbUp, prev, pre, table, request>>

\* test_secret without the comparison of the row with 1.
test_query_AnyRow(w) ==
    /\ proc[w].pc = "test_query"
    /\ LET p == proc[w] IN
       IF ~dbUp
       THEN proc' = [proc EXCEPT ![w] =
               Done(p, "OperationalError", "testSecret: Failed to connect to database")]
       ELSE \E row \in ProbeRows :
               proc' = [proc EXCEPT ![w] =
                  Done([p EXCEPT !.conn = "closed", !.row = row], NoError,
                       "testSecret: Successfully connected to database")]
    /\ UNCHANGED <<store, dbPassword, dbUp, prev, pre, table, request>>

\* test_secret: cursor.execute("SELECT 1"), fetchone, cursor.close,
\* conn.close, then the comparison of the row with 1.  An exception of
\* execute or fetchone skips both close calls.
test_query(w) ==
    /\ proc[w].pc = "test_query"
    /\ LET p == proc[w] IN
       IF ~dbUp
       THEN proc' = [proc EXCEPT ![w] =
               Done(p, "OperationalError", "testSecret: Failed to connect to database")]
       ELSE \E row \in ProbeRows :
               proc' = [proc EXCEPT ![w] =
                  IF row = 1
                  THEN Done([p EXCEPT !.conn = "closed", !.row = row], NoError,
                            "testSecret: Successfully connected to database")
                  ELSE Done([p EXCEPT !.conn = "closed", !.row = row], "Exception",
                            "testSecret: Failed to connect to database")]
    /\ UNCHANGED <<store, dbPassword, dbUp, prev, pre, table, request>>

\* finish_secret: describe_secret and the scan for the AWSCURRENT version;
\* returns when that version is the token's.
finish_describe(w) ==
    /\ proc[w].pc = "finish_describe"
    /\ LET p == proc[w]
           metadata == describe_secret(store, p.arn)
       IN  IF metadata.err # NoError
           THEN proc' = [proc EXCEPT ![w] = Done(p, metadata.err, "none")]
           ELSE LET holders == {v \in DOMAIN metadata.value :
                                   "AWSCURRENT" \in metadata.value[v]}
                IN  IF holders = {}
                    THEN proc' = [proc EXCEPT ![w] =
                            [p EXCEPT !.pc = "finish_update", !.local = None]]
                    ELSE \E version \in holders :
                           proc' = [proc EXCEPT ![w] =
                              IF version = p.token
                              THEN Done(p, NoError,
                                        "finishSecret: Version already marked as AWSCURRENT")
                              ELSE [p EXCEPT !.pc = "finish_update", !.local = version]]
    /\ UNCHANGED <<store, dbPassword, dbUp, prev, pre, table, request>>

\* finish_secret: update_secret_version_stage(SecretId, VersionStage,
\* ClientRequestToken=token, RemoveFromVersionId=current_version).
finish_update(w) ==
    /\ proc[w].pc = "finish_update"
    /\ LET p == proc[w]
           r == update_secret_version_stage(store,
                   [SecretId |-> p.arn, VersionStage |-> "AWSCURRENT",
                    ClientRequestToken |-> p.token,
                    RemoveFromVersionId |-> p.local])
       IN  /\ store' = r.store
           /\ proc' = [proc EXCEPT ![w] =
                 IF r.err = NoError
                 THEN Done(p, NoError, "finishSecret: Successfully set AWSCURRENT stage")
                 ELSE Done(p, r.err, "none")]
    /\ UNCHANGED <<dbPassword, dbUp, prev, pre, table, request>>

\* The caller has the outcome; the instance is free for the next invocation.
Return(w, remember) ==
    /\ proc[w].pc = "done"
    /\ proc' = [proc EXCEPT ![w] = Idle]
    /\ prev' = IF remember
               THEN [step |-> proc[w].step, arn |-> proc[w].arn,
                     token |-> proc[w].token, result |-> proc[w].result]
               ELSE prev
    /\ pre' = NoSnapshot
    /\ UNCHANGED <<store, dbPassword, dbUp, table, request>>

\* The consumer goes down or comes back.
ConsumerOutage ==
    /\ dbUp' = ~dbUp
    /\ UNCHANGED <<store, dbPassword, proc, prev, pre, table, request>>

StepOf(w) ==
    \/ create_lookup(w) \/ create_read(w) \/ create_put(w)
    \/ set_current(w) \/ set_pending(w) \/ set_apply(w)
    \/ test_pending(w) \/ test_connect(w) \/ test_query(w)
    \/ finish_describe(w) \/ finish_update(w)

\* The (arn, token) pairs of the invocations: every token on the secret
\* under rotation, one token on the other two.
InvocationArgs ==
    {<<"S1", t>> : t \in Tokens} \cup {<<"S0", Tok(1)>>, <<"SX", Tok(1)>>}

\* Two instances run the step functions on the secret under rotation, with
\* any steps and tokens, interleaved call by call.
Next ==
    \/ \E w \in Workers, step \in Steps, token \in Tokens :
          Invoke(w, step, "S1", token, FALSE)
    \/ \E w \in Workers : StepOf(w)
    \/ \E w \in Workers : Return(w, FALSE)
    \/ ConsumerOutage

Spec == Init /\ [][Next]_vars

\* One instance, one invocation after the other; the observers record the
\* invocation that returned last and the store at the start of the running one.
SeqNext ==
    \/ \E w \in SeqWorkers, step \in Steps, a \in InvocationArgs :
          Invoke(w, step, a[1], a[2], TRUE)
    \/ \E w \in SeqWorkers, step \in Steps \cup {InvalidStep}, a \in InvocationArgs :
          lambda_handler(w, step, a[1], a[2], TRUE)
    \/ \E w \in SeqWorkers : StepOf(w)
    \/ \E w \in SeqWorkers : Return(w, TRUE)
    \/ ConsumerOutage

SeqSpec == Init /\ [][SeqNext]_vars

----------------------------------------------------------------------------
\* The orchestrator of one rotation of secret "S1" with token Tok(1): it
\* calls createSecret, setSecret, testSecret, finishSecret in this order,
\* calls a step again when it failed and the next one when it succeeded.
RotationToken == Tok(1)

NextStep ==
    IF prev = NoPrev THEN "createSecret"
    ELSE IF prev.result # NoError THEN prev.step
    ELSE CASE prev.step = "createSecret" -> "setSecret"
           [] prev.step = "setSecret" -> "testSecret"
           [] prev.step = "testSecret" -> "finishSecret"
           [] OTHER -> "none"

OrchInvoke(w) ==
    /\ NextStep \in Steps
    /\ Invoke(w, NextStep, "S1", RotationToken, TRUE)

OrchNext ==
    \/ \E w \in SeqWorkers : OrchInvoke(w)
    \/ \E w \in SeqWorkers : StepOf(w)
    \/ \E w \in SeqWorkers : Return(w, TRUE)
    \/ ConsumerOutage

\* The orchestrator and the running invocation keep going; an outage of the
\* consumer does not last for ever and from some time on there is none; a
\* call to the consumer that is made again and again gets through (with the
\* probe returning 1) at some time.
OrchFairness ==
    /\ \A w \in SeqWorkers :
          /\ WF_vars(OrchInvoke(w))
          /\ WF_vars(StepOf(w))
          /\ WF_vars(Return(w, TRUE))
          /\ SF_vars(set_apply(w) /\ proc'[w].result = NoError)
          /\ SF_vars(test_connect(w) /\ proc'[w].pc = "test_query")
          /\ SF_vars(test_query(w) /\ proc'[w].result = NoError)
    /\ WF_vars(~dbUp /\ ConsumerOutage)
    /\ <>[](dbUp)

OrchSpec == Init /\ [][OrchNext]_vars /\ OrchFairness

----------------------------------------------------------------------------
\* generate_password.  A password is represented by the number of its
\* characters in each of the four classes that partition `characters`
\* (string.ascii_letters + string.digits + "!@#$%^&*"): the length and the
\* four any(...) tests depend on nothing else.
CharClasses == {"lower", "upper", "digit", "symbol"}

PasswordLen(password) ==
    password["lower"] + password["upper"] + password["digit"] + password["symbol"]

\* ''.join(random.choice(characters) for _ in range(length)): every string
\* of `length` characters of the alphabet.
Candidates(length) ==
    {[c \in CharClasses |->
         CASE c = "lower" -> t[1]
           [] c = "upper" -> t[2]
           [] c = "digit" -> t[3]
           [] c = "symbol" -> length - (t[1] + t[2] + t[3])] :
       t \in {u \in (0..length) \X (0..length) \X (0..length) :
                 u[1] + u[2] + u[3] <= length}}

has_lower(password) == password["lower"] > 0
has_upper(password) == password["upper"] > 0
has_digit(password) == password["digit"] > 0
has_symbol(password) == password["symbol"] > 0

Lengths == (0..MaxLength) \cup {DefaultLength}

\* generate_password(length) is called.
InvokeGenerate(w, length) ==
    /\ proc[w].pc = "idle"
    /\ proc' = [proc EXCEPT ![w] =
          [Idle EXCEPT !.pc = "gen_sample", !.entry = "generate_password",
                       !.length = length]]
    /\ UNCHANGED <<store, dbPassword, dbUp, prev, pre, table, request>>

\* generate_password: the random draw of the candidate.
gen_sample(w) ==
    /\ proc[w].pc = "gen_sample"
    /\ \E password \in Candidates(proc[w].length) :
          proc' = [proc EXCEPT ![w] =
             [@ EXCEPT !.pc = "gen_check", !.local = password]]
    /\ UNCHANGED <<store, dbPassword, dbUp, prev, pre, table, request>>

\* generate_password that does not ask for a symbol.
gen_check_NoSymbol(w) ==
    /\ proc[w].pc = "gen_check"
    /\ LET p == proc[w] IN
       proc' = [proc EXCEPT ![w] =
          IF has_lower(p.local) /\ has_upper(p.local) /\ has_digit(p.local)
          THEN Done(p, NoError, "none")
          ELSE IF p.depth < MaxDepth
          THEN [p EXCEPT !.pc = "gen_sample", !.depth = @ + 1, !.local = None]
          ELSE Done([p EXCEPT !.local = None], "RecursionError", "none")]
    /\ UNCHANGED <<store, dbPassword, dbUp, prev, pre, table, request>>

\* generate_password: the four tests; the candidate is returned, or the
\* function calls itself with the same length.  Nothing in the function
\* limits the calls: the chain ends when the interpreter refuses another
\* frame.
gen_check(w) ==
    /\ proc[w].pc = "gen_check"
    /\ LET p == proc[w] IN
       proc' = [proc EXCEPT ![w] =
          IF /\ has_lower(p.local) /\ has_upper(p.local)
             /\ has_digit(p.local) /\ has_symbol(p.local)
          THEN Done(p, NoError, "none")
          ELSE IF p.depth < MaxDepth
          THEN [p EXCEPT !.pc = "gen_sample", !.depth = @ + 1, !.local = None]
          ELSE Done([p EXCEPT !.local = None], "RecursionError", "none")]
    /\ UNCHANGED <<store, dbPassword, dbUp, prev, pre, table, request>>

GenNext ==
    \E w \in SeqWorkers :
        \/ \E length \in Lengths : InvokeGenerate(w, length)
        \/ gen_sample(w)
        \/ gen_check(w)
        \/ Return(w, FALSE)

GenSpec == Init /\ [][GenNext]_vars

----------------------------------------------------------------------------
\* The users handler (lesson-12).  An email address is the sequence of its
\* characters, so that the format test is computed on it.
Email(name) == <<name, "@", "x", ".", "c">>

UserIds == {"u1", "u2", "u3"}

\* The bodies of the requests: well-formed ones, one without a name, one
\* without an email, one whose email has neither "@" nor ".".
UserData ==
    {[name |-> "Ann", email |-> e] : e \in {Email("a"), Email("b"), <<"a">>, <<>>}}
    \cup {[name |-> "", email |-> Email("a")]}

Contains(s, ch) == \E i \in DOMAIN s : s[i] = ch

\* create_response(status_code, body): the request is answered.
create_response(r, status_code) == [r EXCEPT !.pc = "done", !.statusCode = status_code]

\* table.scan(FilterExpression=Attr("email").eq(email) [& Attr("id").ne(id)]).
ScanEmail(email, except) ==
    {i \in DOMAIN table : table[i].email = email /\ i # except}

\* create_user: the checks of the required fields and of the email format.
create_user(w, user_data) ==
    /\ request[w].pc = "idle"
    /\ LET r == [NoRequest EXCEPT !.op = "create_user", !.email = user_data.email] IN
       request' = [request EXCEPT ![w] =
          IF user_data.name = "" \/ user_data.email = <<>>
          THEN create_response(r, 400)
          ELSE IF ~Contains(user_data.email, "@") \/ ~Contains(user_data.email, ".")
          THEN create_response(r, 400)
          ELSE [r EXCEPT !.pc = "create_user_scan"]]
    /\ UNCHANGED <<store, dbPassword, dbUp, proc, prev, pre, table>>

\* create_user: the scan for users with this email.
create_user_scan(w) ==
    /\ request[w].pc = "create_user_scan"
    /\ request' = [request EXCEPT ![w] =
          IF ScanEmail(@.email, "none") # {}
          THEN create_response(@, 409)
          ELSE [@ EXCEPT !.pc = "create_user_put"]]
    /\ UNCHANGED <<store, dbPassword, dbUp, proc, prev, pre, table>>

\* create_user: table.put_item of the user under a new uuid4.
create_user_put(w) ==
    /\ request[w].pc = "create_user_put"
    /\ \E id \in UserIds \ DOMAIN table :
          /\ table' = [i \in DOMAIN table \cup {id} |->
                          IF i = id
                          THEN [id |-> id, email |-> request[w].email, active |-> TRUE]
                          ELSE table[i]]
          /\ request' = [request EXCEPT ![w] =
                create_response([@ EXCEPT !.id = id], 201)]
    /\ UNCHANGED <<store, dbPassword, dbUp, proc, prev, pre>>

\* update_user: table.get_item, then the check of the email format.
update_user(w, user_id, user_data) ==
    /\ request[w].pc = "idle"
    /\ LET r == [NoRequest EXCEPT !.op = "update_user", !.id = user_id,
                                   !.email = user_data.email] IN
       request' = [request EXCEPT ![w] =
          IF user_id \notin DOMAIN table
          THEN create_response(r, 404)
          ELSE IF ~Contains(user_data.email, "@") \/ ~Contains(user_data.email, ".")
          THEN create_response(r, 400)
          ELSE [r EXCEPT !.pc = "update_user_scan"]]
    /\ UNCHANGED <<store, dbPassword, dbUp, proc, prev, pre, table>>

\* update_user: the scan for another user with this email.
update_user_scan(w) ==
    /\ request[w].pc = "update_user_scan"
    /\ request' = [request EXCEPT ![w] =
          IF ScanEmail(@.email, @.id) # {}
          THEN create_response(@, 409)
          ELSE [@ EXCEPT !.pc = "update_user_item"]]
    /\ UNCHANGED <<store, dbPassword, dbUp, proc, prev, pre, table>>

\* update_user: table.update_item with SET email = :email.
update_user_item(w) ==
    /\ request[w].pc = "update_user_item"
    /\ table' = [table EXCEPT ![request[w].id].email = request[w].email]
    /\ request' = [request EXCEPT ![w] = create_response(@, 200)]
    /\ UNCHANGED <<store, dbPassword, dbUp, proc, prev, pre>>

\* delete_user: table.get_item.
delete_user(w, user_id) ==
    /\ request[w].pc = "idle"
    /\ LET r == [NoRequest EXCEPT !.op = "delete_user", !.id = user_id] IN
       request' = [request EXCEPT ![w] =
          IF user_id \notin DOMAIN table
          THEN create_response(r, 404)
          ELSE [r EXCEPT !.pc = "delete_user_item"]]
    /\ UNCHANGED <<store, dbPassword, dbUp, proc, prev, pre, table>>

\* delete_user: table.update_item with SET active = False.
delete_user_item(w) ==
    /\ request[w].pc = "delete_user_item"
    /\ table' = [table EXCEPT ![request[w].id].active = FALSE]
    /\ request' = [request EXCEPT ![w] = create_response(@, 200)]
    /\ UNCHANGED <<store, dbPassword, dbUp, proc, prev, pre>>

\* The response has been sent.
Respond(w) ==
    /\ request[w].pc = "done"
    /\ request' = [request EXCEPT ![w] = NoRequest]
    /\ UNCHANGED <<store, dbPassword, dbUp, proc, prev, pre, table>>

\* Two instances of the handler serve requests, interleaved call by call.
UsersNext ==
    \E w \in Workers :
        \/ \E user_data \in UserData : create_user(w, user_data)
        \/ create_user_scan(w)
        \/ create_user_put(w)
        \/ \E user_id \in UserIds, user_data \in UserData :
              update_user(w, user_id, user_data)
        \/ update_user_scan(w)
        \/ update_user_item(w)
        \/ \E user_id \in UserIds : delete_user(w, user_id)
        \/ delete_user_item(w)
        \/ Respond(w)

UsersSpec == Init /\ [][UsersNext]_vars

----------------------------------------------------------------------------
\* Properties.

Current(a) == Labelled(store[a], "AWSCURRENT")
Pending(a) == Labelled(store[a], "AWSPENDING")

\* The dict stored in version v of secret a.
SecretDict(a, v) == json_loads(store[a][v].SecretString)

\* An invocation of step function `step`, called directly, has ended.
Ended(w, step) ==
    /\ proc[w].pc = "done"
    /\ proc[w].entry = "step function"
    /\ proc[w].step = step

\* C1: in every reachable state, after any interleaving of Create, Set, Test
\* and Finish invocations with any tokens, each secret has at most one
\* version labelled CURRENT and at most one labelled PENDING.
C1_AtMostOneCurrentAndPending ==
    \A a \in DOMAIN store :
        /\ Cardinality(Current(a)) <= 1
        /\ Cardinality(Pending(a)) <= 1

\* Both rotation tokens have a version (two Creates ran), one CURRENT and
\* one PENDING version exist.
C1_Witness ==
    /\ {Tok(1), Tok(2)} \subseteq DOMAIN store["S1"]
    /\ Cardinality(Current("S1")) = 1
    /\ Cardinality(Pending("S1")) = 1

ExactlyOneCurrent(a) == Cardinality(Current(a)) = 1

\* C2: a secret that has exactly one CURRENT version keeps exactly one in
\* every step: no invocation (Finish with a token that matches no version
\* included) removes the label without putting it on another version.
C2_CurrentNeverRemoved ==
    [][\A a \in DOMAIN store : ExactlyOneCurrent(a) => ExactlyOneCurrent(a)']_vars

\* Finish has run to its label update with a token that matches no version.
C2_Witness ==
    \E w \in Workers :
        /\ Ended(w, "finishSecret")
        /\ proc[w].arn = "S1"
        /\ proc[w].token \notin DOMAIN store["S1"]
        /\ proc[w].local = Tok(0)
        /\ ExactlyOneCurrent("S1")

\* The invocation that returned before the running one.
After(w, step, result) ==
    /\ prev.step = step
    /\ prev.arn = proc[w].arn
    /\ prev.token = proc[w].token
    /\ prev.result = result

\* C3: Create called twice in sequence with the same secret and token: the
\* second call succeeds, leaves the store as it found it, and the token's
\* version is the one PENDING version.
C3_CreateTwice ==
    \A w \in SeqWorkers :
        (Ended(w, "createSecret") /\ After(w, "createSecret", NoError))
        => /\ proc[w].result = NoError
           /\ store = pre
           /\ Pending(proc[w].arn) = {proc[w].token}

\* A second Create with the token has ended after the first one created the
\* PENDING version.
C3_Witness ==
    \E w \in SeqWorkers :
        /\ Ended(w, "createSecret")
        /\ After(w, "createSecret", NoError)
        /\ proc[w].log = "createSecret: Successfully retrieved secret"
        /\ proc[w].token \notin DOMAIN InitialStore["S1"]

\* C4: Finish called twice in sequence with the same secret and a token
\* that stamps a version: the second call succeeds, exactly one version is
\* CURRENT, and the store is as the first call left it.
C4_FinishTwice ==
    \A w \in SeqWorkers :
        (/\ Ended(w, "finishSecret")
         /\ prev.step = "finishSecret"
         /\ prev.arn = proc[w].arn
         /\ prev.token = proc[w].token
         /\ proc[w].arn \in DOMAIN store
         /\ proc[w].token \in DOMAIN store[proc[w].arn])
        => /\ proc[w].result = NoError
           /\ store = pre
           /\ ExactlyOneCurrent(proc[w].arn)

\* C5: no step of a Test invocation changes the store, whatever the probe
\* returns: versions, payloads and labels stay as they were.
C5_TestLeavesStore ==
    [][\A w \in Workers :
          (proc[w].step = "testSecret" /\ proc'[w] # proc[w]) => store' = store]_vars

\* One Test has ended in success and another has ended with an error raised
\* by the probe query, on a secret that has a PENDING version.
C5_Witness ==
    /\ Ended("w1", "testSecret")
    /\ proc["w1"].result = NoError
    /\ Ended("w2", "testSecret")
    /\ proc["w2"].result \in {"OperationalError", "Exception"}
    /\ proc["w2"].conn # "none"
    /\ Pending("S1") # {}

StepIndex(step) ==
    CASE step = "createSecret" -> 1
      [] step = "setSecret" -> 2
      [] step = "testSecret" -> 3
      [] step = "finishSecret" -> 4
      [] OTHER -> 0

\* Worker w runs a step with the (secret, token) of the invocation that
\* returned before it, that invocation being the same or a later step.
Replay(w) ==
    /\ Active(proc[w])
    /\ prev.arn = proc[w].arn
    /\ prev.token = proc[w].token
    /\ StepIndex(prev.step) >= StepIndex(proc[w].step)

\* Every version keeps its payload.
PayloadsKept ==
    \A a \in DOMAIN store : \A v \in DOMAIN store[a] :
        /\ v \in DOMAIN store'[a]
        /\ store'[a][v].SecretString = store[a][v].SecretString

\* C6: no invocation creates a second PENDING version or overwrites the
\* payload of an existing version, and a replayed step (same secret and
\* token as the invocation before it, same or earlier step) never changes
\* which version is CURRENT.
C6_ReplaySafe ==
    /\ [](\A a \in DOMAIN store : Cardinality(Pending(a)) <= 1)
    /\ [][/\ PayloadsKept
          /\ \A w \in SeqWorkers :
                Replay(w) => \A a \in DOMAIN store : Current(a)' = Current(a)]_vars

\* Create has been re-invoked with a token after Finish with that token
\* succeeded, and has ended.
C6_Witness ==
    \E w \in SeqWorkers :
        /\ Ended(w, "createSecret")
        /\ After(w, "finishSecret", NoError)
        /\ proc[w].arn = "S1"

\* C7: Create, Set, Test, Finish with one token on a healthy consumer: when
\* Finish ends after Test succeeded, Finish has succeeded, the token's
\* version is CURRENT with the user unchanged and the password the consumer
\* now has, and the old version has no label.
C7_RotationScenario ==
    \A w \in SeqWorkers :
        (/\ Ended(w, "finishSecret")
         /\ After(w, "testSecret", NoError)
         /\ proc[w].arn = "S1"
         /\ proc[w].token = Tok(1)
         /\ dbUp)
        => /\ proc[w].result = NoError
           /\ Current("S1") = {Tok(1)}
           /\ DictGet(SecretDict("S1", Tok(1)), "username")
                = DictGet(json_loads(InitialSecretString), "username")
           /\ DictGet(SecretDict("S1", Tok(1)), "password") = dbPassword
           /\ dbPassword \in GeneratedPasswords
           /\ store["S1"][Tok(0)].stages = {}

\* C8: Set re-invoked after it failed on a consumer outage: it reaches the
\* credential change with the store as the failed call left it (no Create in
\* between, no new password), succeeds when the consumer is up, and has then
\* applied the password of the token's PENDING version.
C8_SetRetry ==
    /\ [](\A w \in SeqWorkers :
            (Ended(w, "setSecret") /\ After(w, "setSecret", "ClientError"))
            => /\ proc[w].result \in {NoError, "ClientError"}
               /\ proc[w].token \in Pending(proc[w].arn)
               /\ store = pre
               /\ proc[w].result = NoError =>
                     /\ dbPassword
                          = DictGet(SecretDict(proc[w].arn, proc[w].token), "password")
                     /\ dbPassword \in GeneratedPasswords)
    /\ [][\A w \in SeqWorkers :
            (/\ proc[w].pc = "set_apply"
             /\ After(w, "setSecret", "ClientError")
             /\ dbUp
             /\ proc'[w].pc = "done")
            => proc'[w].result = NoError]_vars

\* Set has succeeded right after a Set with the same token failed.
C8_Witness ==
    \E w \in SeqWorkers :
        /\ Ended(w, "setSecret")
        /\ proc[w].result = NoError
        /\ After(w, "setSecret", "ClientError")
        /\ dbUp

CredentialFields == {"host", "port", "dbname", "username", "password"}

\* C9: when Create ends, the store is as it was before the call or differs
\* from it by a complete version stamped with the token and labelled PENDING;
\* when Finish ends, the store is as it was before the call or the token's
\* version has taken CURRENT from the version that had it.
C9_NoPartialCommit ==
    \A w \in SeqWorkers :
        /\ Ended(w, "createSecret") =>
              \/ store = pre
              \/ /\ proc[w].token \notin DOMAIN pre[proc[w].arn]
                 /\ proc[w].token \in Pending(proc[w].arn)
                 /\ \A k \in CredentialFields :
                       HasKey(SecretDict(proc[w].arn, proc[w].token), k)
                 /\ \A v \in DOMAIN pre[proc[w].arn] :
                       /\ v \in DOMAIN store[proc[w].arn]
                       /\ store[proc[w].arn][v].SecretString
                            = pre[proc[w].arn][v].SecretString
        /\ Ended(w, "finishSecret") =>
              \/ store = pre
              \/ /\ Current(proc[w].arn) = {proc[w].token}
                 /\ Labelled(pre[proc[w].arn], "AWSCURRENT") \cap Current(proc[w].arn) = {}

\* Create has ended having written its version; the label moved to it from
\* the version of another token.
C9_Witness ==
    \E w \in SeqWorkers :
        /\ Ended(w, "createSecret")
        /\ store # pre
        /\ Labelled(pre["S1"], "AWSPENDING") # {}
        /\ Pending("S1") = {proc[w].token}

\* C10: two concurrent Creates, or two concurrent Finishes, of the same
\* (secret, token): one PENDING version with one password and one CURRENT
\* version result, one call succeeds and the other succeeds too or fails
\* with the store's conditional-write error.
C10_ConcurrentSameToken ==
    \A w, u \in Workers :
        (/\ w # u
         /\ proc[w].concurrent /\ proc[u].concurrent
         /\ proc[w].arn = "S1" /\ proc[u].arn = "S1"
         /\ proc[w].token = proc[u].token
         /\ proc[w].token \in DOMAIN store["S1"])
        => /\ (Ended(w, "createSecret") /\ Ended(u, "createSecret")
               /\ proc[w].token \in Pending("S1"))
              => /\ Pending("S1") = {proc[w].token}
                 /\ ExactlyOneCurrent("S1")
                 /\ NoError \in {proc[w].result, proc[u].result}
                 /\ {proc[w].result, proc[u].result}
                       \subseteq {NoError, "ResourceExistsException"}
           /\ (Ended(w, "finishSecret") /\ Ended(u, "finishSecret"))
              => /\ ExactlyOneCurrent("S1")
                 /\ NoError \in {proc[w].result, proc[u].result}
                 /\ {proc[w].result, proc[u].result}
                       \subseteq {NoError, "InvalidParameterException"}

\* The Create half of C10 alone.
C10_ConcurrentCreate ==
    \A w, u \in Workers :
        (/\ w # u
         /\ proc[w].concurrent /\ proc[u].concurrent
         /\ proc[w].arn = "S1" /\ proc[u].arn = "S1"
         /\ proc[w].token = proc[u].token
         /\ Ended(w, "createSecret") /\ Ended(u, "createSecret")
         /\ proc[w].token \in Pending("S1"))
        => /\ Pending("S1") = {proc[w].token}
           /\ ExactlyOneCurrent("S1")
           /\ NoError \in {proc[w].result, proc[u].result}
           /\ {proc[w].result, proc[u].result}
                 \subseteq {NoError, "ResourceExistsException"}

----------------------------------------------------------------------------
\* Two instances run finish_secret at the same time with different tokens.
ConcurrentFinish(w, u) ==
    /\ w # u
    /\ proc[w].step = "finishSecret" /\ proc[u].step = "finishSecret"
    /\ proc[w].concurrent /\ proc[u].concurrent
    /\ proc[w].arn = proc[u].arn
    /\ proc[w].token # proc[u].token

----------------------------------------------------------------------------
----------------------------------------------------------------------------
\* generate_password has returned `password` to its caller.
Generated(w) ==
    /\ proc[w].pc = "done"
    /\ proc[w].entry = "generate_password"
    /\ proc[w].result = NoError

\* C13: a value returned by generate_password(32) has 32 characters, all of
\* them from the alphabet, and at least one lowercase letter, one uppercase
\* letter, one digit and one symbol; for no length is a candidate returned
\* that lacks one of the four.
C13_GeneratedPasswordCompliant ==
    \A w \in SeqWorkers :
        Generated(w) =>
            LET password == proc[w].local IN
            /\ DOMAIN password = CharClasses
            /\ \A c \in CharClasses : password[c] >= 1
            /\ PasswordLen(password) = proc[w].length
            /\ proc[w].length = DefaultLength => PasswordLen(password) = 32

\* generate_password(32) returned a password after it had discarded a
\* candidate.
C13_Witness ==
    \E w \in SeqWorkers :
        /\ Generated(w)
        /\ proc[w].length = DefaultLength
        /\ proc[w].depth > 0
        /\ PasswordLen(proc[w].local) = 32

\* C14: generate_password(length) ends, for every length, by returning a
\* password or by failing with PolicyUnsatisfiable, after a capped number
\* of re-samples.
C14_GenerationBounded ==
    \A w \in SeqWorkers :
        (proc[w].pc = "done" /\ proc[w].entry = "generate_password")
        => proc[w].result \in {NoError, "PolicyUnsatisfiable"}

----------------------------------------------------------------------------
\* C15: createSecret for a secret that does not exist fails with
\* ResourceNotFoundException; for a secret that exists and has no AWSCURRENT
\* version it fails with the handler's ValueError "no AWSCURRENT version"
\* (with the ResourceNotFoundException of the AWSCURRENT read when
\* create_secret is called directly); in both cases the store, versions and
\* labels, is as it was when the invocation began.
C15_CreateWithoutCurrent ==
    \A w \in SeqWorkers :
        (proc[w].pc = "done" /\ proc[w].step = "createSecret") =>
            /\ proc[w].arn \notin DOMAIN store =>
                  /\ proc[w].result = "ResourceNotFoundException"
                  /\ store = pre
            /\ (proc[w].arn \in DOMAIN store /\ Current(proc[w].arn) = {}) =>
                  /\ IF proc[w].entry = "lambda_handler"
                     THEN /\ proc[w].result = "ValueError"
                          /\ proc[w].log = "no AWSCURRENT version"
                     ELSE proc[w].result = "ResourceNotFoundException"
                  /\ store = pre
                  /\ DOMAIN store[proc[w].arn] = {}

\* createSecret has failed for the absent secret, and then through the
\* handler for the secret without a current version.
C15_Witness ==
    \E w \in SeqWorkers :
        /\ prev.step = "createSecret" /\ prev.arn = "SX"
        /\ prev.result = "ResourceNotFoundException"
        /\ proc[w].pc = "done" /\ proc[w].step = "createSecret"
        /\ proc[w].arn = "S0" /\ proc[w].entry = "lambda_handler"
        /\ proc[w].result = "ValueError"
        /\ store = pre

----------------------------------------------------------------------------
\* C16: finishSecret with a token that stamps no version of the secret
\* fails with the store's not-found error (ResourceNotFoundException) and
\* leaves the store, every label included, as it was when the invocation
\* began.
C16_FinishUnknownToken ==
    \A w \in SeqWorkers :
        (/\ Ended(w, "finishSecret")
         /\ proc[w].arn = "S1"
         /\ proc[w].token \notin DOMAIN store[proc[w].arn])
        => /\ proc[w].result = "ResourceNotFoundException"
           /\ store = pre

----------------------------------------------------------------------------
\* C17: no step of a setSecret invocation changes the store (versions,
\* payloads, labels), whether modify_db_instance accepts or rejects the
\* password; when it rejects, the invocation ends with the error raised to
\* the caller and the consumer's password as it was.
C17_SetLeavesStore ==
    [][\A w \in Workers :
          (proc[w].step = "setSecret" /\ proc'[w] # proc[w]) =>
              /\ store' = store
              /\ (proc[w].pc = "set_apply" /\ proc'[w].pc # "set_apply" /\ ~dbUp) =>
                    /\ proc'[w].pc = "done"
                    /\ proc'[w].result = "ClientError"
                    /\ dbPassword' = dbPassword]_vars

\* One setSecret has changed the consumer's password to the pending one and
\* another has ended with the failure of modify_db_instance.
C17_Witness ==
    \E w, u \in Workers :
        /\ Ended(w, "setSecret") /\ proc[w].result = NoError
        /\ dbPassword = DictGet(proc[w].local, "password")
        /\ dbPassword # OldPassword
        /\ Ended(u, "setSecret") /\ proc[u].result = "ClientError"
        /\ proc[u].log = "setSecret: Failed to set password in RDS"

----------------------------------------------------------------------------
\* C18: a testSecret invocation ends without error only if it connected
\* with the record of the token's AWSPENDING version and the probe returned
\* 1; a probe row other than 1 ends it with the "Database test query
\* failed" Exception, a failed connect or query with the driver's
\* OperationalError, and neither ends it without error.
C18_TestSucceedsOnlyOnSentinel ==
    \A w \in Workers :
        Ended(w, "testSecret") =>
            /\ proc[w].result = NoError <=> proc[w].row = 1
            /\ proc[w].result = NoError =>
                  /\ proc[w].conn = "closed"
                  /\ proc[w].local = SecretDict(proc[w].arn, proc[w].token)
                  /\ proc[w].log = "testSecret: Successfully connected to database"
            /\ proc[w].row = 0 => proc[w].result = "Exception"
            /\ (proc[w].local # None /\ proc[w].row = -1) =>
                  proc[w].result = "OperationalError"

\* One testSecret has ended on a probe row other than 1, another on a
\* connect that failed, both with the record of the AWSPENDING version.
C18_Witness ==
    \E w, u \in Workers :
        /\ Ended(w, "testSecret")
        /\ proc[w].row = 0 /\ proc[w].result = "Exception"
        /\ Ended(u, "testSecret")
        /\ proc[u].conn = "none" /\ proc[u].local # None
        /\ proc[u].result = "OperationalError"
        /\ proc[w].token \in Pending(proc[w].arn)

----------------------------------------------------------------------------
\* The error of the call worker w is about to make, in the current state of
\* the store and of the consumer; NoError when the call goes through.  The
\* not-found of create_secret's lookup is the one error the code handles.
CallError(w) ==
    LET p == proc[w] IN
    CASE p.pc = "create_lookup" ->
            LET e == get_secret_value(store, p.arn, p.token, "AWSPENDING").err
            IN  IF e = "ResourceNotFoundException" THEN NoError ELSE e
      [] p.pc \in {"create_read", "set_current"} ->
            get_secret_dict(store, p.arn, "AWSCURRENT", None).err
      [] p.pc = "create_put" ->
            put_secret_value(store, p.arn, p.token, p.local, {"AWSPENDING"}).err
      [] p.pc \in {"set_pending", "test_pending"} ->
            get_secret_dict(store, p.arn, "AWSPENDING", p.token).err
      [] p.pc = "set_apply" -> IF dbUp THEN NoError ELSE "ClientError"
      [] p.pc = "test_connect" ->
            IF dbUp /\ DictGet(p.local, "password") = dbPassword
            THEN NoError ELSE "OperationalError"
      [] p.pc = "test_query" -> IF dbUp THEN NoError ELSE "OperationalError"
      [] p.pc = "finish_describe" -> describe_secret(store, p.arn).err
      [] p.pc = "finish_update" ->
            update_secret_version_stage(store,
                [SecretId |-> p.arn, VersionStage |-> "AWSCURRENT",
                 ClientRequestToken |-> p.token,
                 RemoveFromVersionId |-> p.local]).err
      [] OTHER -> NoError

\* C19: when a call made by an invocation fails (a store call, the password
\* change, the connect, the probe query, or a probe row other than 1), the
\* invocation ends there with that error raised to the caller, never with
\* success; the same holds for the handler's describe_secret.  The
\* not-found of create_secret's own AWSPENDING lookup is the exception: the
\* invocation goes on to create the version.
C19_ErrorsSurfaced ==
    [][\A w \in SeqWorkers :
          /\ (CallError(w) # NoError /\ proc'[w].pc # proc[w].pc) =>
                /\ proc'[w].pc = "done"
                /\ proc'[w].result = CallError(w)
          /\ (/\ proc[w].pc = "idle"
              /\ proc'[w].entry = "lambda_handler"
              /\ describe_secret(store, proc'[w].arn).err # NoError) =>
                /\ proc'[w].pc = "done"
                /\ proc'[w].result = describe_secret(store, proc'[w].arn).err
          /\ (proc[w].pc = "test_query" /\ proc'[w].pc = "done"
              /\ proc'[w].row # 1) =>
                proc'[w].result # NoError
          /\ (/\ proc[w].pc = "create_lookup"
              /\ get_secret_value(store, proc[w].arn, proc[w].token,
                                  "AWSPENDING").err = "ResourceNotFoundException"
              /\ proc'[w].pc # proc[w].pc) =>
                proc'[w].pc = "create_read"]_vars

\* The handler has ended with the error of describe_secret after a
\* testSecret ended with the error of the connect.
C19_Witness ==
    \E w \in SeqWorkers :
        /\ prev.step = "testSecret" /\ prev.result = "OperationalError"
        /\ proc[w].pc = "done"
        /\ proc[w].entry = "lambda_handler"
        /\ proc[w].result = "ResourceNotFoundException"

----------------------------------------------------------------------------
\* C20: when a testSecret invocation has ended, by success, by a probe row
\* other than 1 or by an exception raised after psycopg2.connect returned,
\* the connection it opened is not open any more.
C20_ConnectionClosed ==
    \A w \in SeqWorkers :
        Ended(w, "testSecret") => proc[w].conn # "open"

----------------------------------------------------------------------------
\* The password a client reads from the AWSCURRENT version of secret a is
\* the one the consumer accepts.
CurrentAccepted(a) ==
    \A v \in Current(a) : DictGet(SecretDict(a, v), "password") = dbPassword

\* C21: at every instant of an in-order rotation the password of the
\* AWSCURRENT version is the consumer's password; here, when setSecret has
\* ended after createSecret succeeded for the same token, on a secret whose
\* only versions are the initial one and the token's.
C21_NoDowntime ==
    \A w \in SeqWorkers :
        (/\ Ended(w, "setSecret")
         /\ After(w, "createSecret", NoError)
         /\ proc[w].arn = "S1"
         /\ DOMAIN store["S1"] = {Tok(0), proc[w].token})
        => CurrentAccepted("S1")

----------------------------------------------------------------------------
\* The keys of a dict.
Keys(d) == {d[i][1] : i \in DOMAIN d}

\* C22: when createSecret has stored a version (its lookup found none for
\* the token), that version is new, stamped with the token and labelled
\* AWSPENDING only; its dict has the keys of the dict that was AWSCURRENT
\* when the invocation began and the same value for every key but
\* "password", which holds a generated password; the AWSCURRENT version is
\* as it was, payload and labels.
C22_CreateDerivesFromCurrent ==
    \A w \in SeqWorkers :
        (/\ Ended(w, "createSecret")
         /\ proc[w].log = "createSecret: Successfully put secret")
        => LET a == proc[w].arn
               t == proc[w].token
               new == SecretDict(a, t)
           IN  /\ t \notin DOMAIN pre[a]
               /\ store[a][t].stages = {"AWSPENDING"}
               /\ Labelled(pre[a], "AWSCURRENT") # {}
               /\ \A c \in Labelled(pre[a], "AWSCURRENT") :
                     LET old == json_loads(pre[a][c].SecretString) IN
                     /\ Keys(new) = Keys(old)
                     /\ Keys(new) = CredentialFields
                     /\ \A k \in Keys(old) \ {"password"} :
                           DictGet(new, k) = DictGet(old, k)
                     /\ store[a][c] = pre[a][c]
               /\ DictGet(new, "password") \in GeneratedPasswords
               /\ DictGet(new, "password") = DictGet(json_loads(proc[w].local), "password")

\* createSecret has stored the version of its token with a new password
\* next to the AWSCURRENT version.
C22_Witness ==
    \E w \in SeqWorkers :
        /\ Ended(w, "createSecret")
        /\ proc[w].log = "createSecret: Successfully put secret"
        /\ proc[w].token \in Pending(proc[w].arn)
        /\ Current(proc[w].arn) = {Tok(0)}
        /\ DictGet(SecretDict(proc[w].arn, proc[w].token), "password") # OldPassword
        /\ DictGet(SecretDict(proc[w].arn, proc[w].token), "host") = "db.internal"

----------------------------------------------------------------------------
\* C23: finishSecret for a token whose version exists and is not AWSCURRENT
\* ends without error having made the token's version AWSCURRENT and the
\* version that was AWSCURRENT unlabelled; that version is still stored
\* with its payload, and every other version is as it was.
C23_FinishSwaps ==
    \A w \in SeqWorkers :
        (/\ Ended(w, "finishSecret")
         /\ proc[w].arn = "S1"
         /\ proc[w].token \in DOMAIN pre["S1"]
         /\ proc[w].token \notin Labelled(pre["S1"], "AWSCURRENT"))
        => /\ proc[w].result = NoError
           /\ Current("S1") = {proc[w].token}
           /\ \A c \in Labelled(pre["S1"], "AWSCURRENT") :
                 /\ c \in DOMAIN store["S1"]
                 /\ store["S1"][c].stages = {}
                 /\ store["S1"][c].SecretString = pre["S1"][c].SecretString
           /\ \A v \in DOMAIN pre["S1"] :
                 (v # proc[w].token /\ v \notin Labelled(pre["S1"], "AWSCURRENT"))
                 => (v \in DOMAIN store["S1"] /\ store["S1"][v] = pre["S1"][v])

----------------------------------------------------------------------------
\* C24: the password change of setSecret is authenticated with the
\* credentials of rds_client (the execution role), never with a secret's
\* record; the connect of testSecret uses the fields of the version of the
\* invocation's token, which is the AWSPENDING version, and nothing else.
C24_CredentialsUsed ==
    \A w \in SeqWorkers :
        /\ (Ended(w, "setSecret") /\ proc[w].auth # None) =>
              proc[w].auth = RdsClientCredential
        /\ (Ended(w, "setSecret") /\ proc[w].local # None) =>
              proc[w].auth = RdsClientCredential
        /\ (Ended(w, "testSecret") /\ proc[w].local # None) =>
              /\ proc[w].auth # None
              /\ proc[w].token \in Pending(proc[w].arn)
              /\ proc[w].auth = ConnectArgs(SecretDict(proc[w].arn, proc[w].token))
              /\ proc[w].conn # "none" =>
                    DictGet(proc[w].auth, "password") = dbPassword

\* testSecret has connected with the pending record after setSecret made
\* its password the consumer's, while the AWSCURRENT record holds the old
\* password.
C24_Witness ==
    \E w \in SeqWorkers :
        /\ Ended(w, "testSecret")
        /\ After(w, "setSecret", NoError)
        /\ proc[w].result = NoError
        /\ DictGet(proc[w].auth, "password") # OldPassword
        /\ \A v \in Current(proc[w].arn) :
              DictGet(SecretDict(proc[w].arn, v), "password") = OldPassword

----------------------------------------------------------------------------
\* C25: for a secret that exists and has an AWSCURRENT version the handler
\* does not raise its "no AWSCURRENT version" error: it dispatches the step.
C25_HandlerPrecheck ==
    \A w \in SeqWorkers :
        (/\ proc[w].pc = "done"
         /\ proc[w].entry = "lambda_handler"
         /\ proc[w].arn \in DOMAIN store
         /\ Current(proc[w].arn) # {})
        => ~(proc[w].result = "ValueError" /\ proc[w].log = "no AWSCURRENT version")

----------------------------------------------------------------------------
\* C26: with the steps invoked in any order, finishSecret changes the
\* AWSCURRENT version only when the token's version was AWSPENDING, and
\* when it has ended without error the consumer's password is the password
\* of the AWSCURRENT version.
C26_FinishGuarded ==
    \A w \in SeqWorkers :
        (Ended(w, "finishSecret") /\ proc[w].arn = "S1") =>
            /\ Current("S1") # Labelled(pre["S1"], "AWSCURRENT") =>
                  proc[w].token \in Labelled(pre["S1"], "AWSPENDING")
            /\ proc[w].result = NoError => CurrentAccepted("S1")

----------------------------------------------------------------------------
\* C27: under the in-order orchestrator with re-invocation of failed steps
\* and outages that clear, the rotation reaches a state where the token's
\* version is AWSCURRENT.
C27_RotationCompletes ==
    <>(RotationToken \in Current("S1"))

----------------------------------------------------------------------------
\* C28: an invocation of the handler with a step other than createSecret,
\* setSecret, testSecret, finishSecret ends at once with an error, and
\* neither the store nor the consumer's password changes.
C28_InvalidStepRejected ==
    [][\A w \in SeqWorkers :
          (/\ proc[w].pc = "idle"
           /\ proc'[w].entry = "lambda_handler"
           /\ proc'[w].step \notin Steps)
          => /\ proc'[w].pc = "done"
             /\ proc'[w].result # NoError
             /\ store' = store
             /\ dbPassword' = dbPassword]_vars

\* The handler has ended with a ValueError for a step it does not know, on
\* the secret under rotation while it has a pending version.
C28_Witness ==
    \E w \in SeqWorkers :
        /\ proc[w].pc = "done"
        /\ proc[w].entry = "lambda_handler"
        /\ proc[w].step = InvalidStep
        /\ proc[w].arn = "S1"
        /\ proc[w].result = "ValueError"
        /\ Pending("S1") # {}
        /\ store = pre

----------------------------------------------------------------------------
\* C29: when setSecret has ended right after a setSecret with the same
\* token succeeded, the consumer's password is the one the first call
\* applied, the password of the token's AWSPENDING version; and a setSecret
\* whose token stamps no AWSPENDING version never changes the consumer's
\* password and ends with an error.
C29_SetIdempotent ==
    /\ [](\A w \in SeqWorkers :
            /\ (Ended(w, "setSecret") /\ After(w, "setSecret", NoError)) =>
                  /\ proc[w].token \in Pending(proc[w].arn)
                  /\ dbPassword
                       = DictGet(SecretDict(proc[w].arn, proc[w].token), "password")
                  /\ proc[w].result \in {NoError, "ClientError"}
            /\ (/\ Ended(w, "setSecret")
                /\ proc[w].arn \in DOMAIN store
                /\ proc[w].token \notin Pending(proc[w].arn)) =>
                  proc[w].result # NoError)
    /\ [][\A w \in SeqWorkers :
            (/\ proc[w].step = "setSecret"
             /\ proc[w].arn \in DOMAIN store
             /\ proc[w].token \notin Pending(proc[w].arn))
            => dbPassword' = dbPassword]_vars

\* setSecret has succeeded twice in a row with the same token, and the
\* consumer has the pending password.
C29_Witness ==
    \E w \in SeqWorkers :
        /\ Ended(w, "setSecret")
        /\ After(w, "setSecret", NoError)
        /\ proc[w].result = NoError
        /\ dbPassword # OldPassword

----------------------------------------------------------------------------
\* C30: no two items of the users table have the same email, whatever the
\* interleaving of the requests.
C30_UniqueEmail ==
    \A i, j \in DOMAIN table :
        i # j => table[i].email # table[j].email

====
